---- MODULE Spec2Model ----
(***************************************************************************)
(* Helmet reservation + QR check-in workflow of afroboosteur.              *)
(*                                                                         *)
(* The four API route handlers (create, scan, DELETE, bulk-delete) are     *)
(* modelled as concurrent requests.  Every awaited store call of a handler *)
(* is one atomic step; the synchronous code between two awaits belongs to  *)
(* the step of the await that precedes it.  A handler's arrival and its    *)
(* reads of collections that nothing here writes (users, courses) are      *)
(* taken together with its first read of a collection that does change:    *)
(* they commute with every step of every other request.  The response of a *)
(* handler is sent by a step of its own, Reply, before anything else runs, *)
(* so that a state shows a response next to the store it was computed on.  *)
(* The document store accessors of '@/lib/database' are not part of the    *)
(* sources; they are modelled as plain single-document reads and writes.   *)
(***************************************************************************)
EXTENDS Integers, Sequences, FiniteSets, TLC

\* ------------------------------------------------------------------ bounds
MaxReq == 2            \* request handlers in flight at the same time
MaxReservations == 2   \* reservation documents ever created
MaxClock == 1          \* distinct values of Date.now() after the first
MaxRequests == 4       \* requests in a behaviour that get past their first step
MaxBookings == 3       \* reservation documents where only bookings are made
MaxStarts == 3         \* calls of startCamera of the scanner

\* ------------------------------------------------------- collaborator data
Users == {"u1", "u2"}                  \* documents of the users collection
ScheduleIds == {"s1", "s2"}
\* the bookings asked for: u1 for both classes, u2 for the first, and the
\* requests the handler turns away ("u0": no such user, "": field missing)
CreateInputs ==
  {<<"u1", "s1">>, <<"u1", "s2">>, <<"u2", "s1">>, <<"u0", "s1">>, <<"", "s1">>,
   <<"u1", "">>}
Courses == {"c1", "c2"}
CourseCoach == [c \in Courses |-> IF c = "c1" THEN "k1" ELSE "k2"]
\* schedule documents of an older format: "s3" has no startTime, the startTime
\* of "s4" is a string that is not a date
LegacySchedules == {"s3", "s4"}
ScheduleData ==
  [s \in ScheduleIds \cup LegacySchedules |->
     IF s = "s1"
     THEN [courseId |-> "c1", createdBy |-> "k1",
           startTime |-> [shape |-> "timestamp", day |-> 1]]
     ELSE IF s = "s2"
     THEN [courseId |-> "c1", createdBy |-> "k2",
           startTime |-> [shape |-> "timestamp", day |-> 2]]
     ELSE [courseId |-> "c1", createdBy |-> "k1",
           startTime |-> [shape |-> IF s = "s3" THEN "missing" ELSE "invalid",
                          day |-> 0]]]

NoTime == -1                           \* checkinTime not set
NoToken == <<"", 0>>
BogusToken == <<"nobody", 0>>
\* mutant: the token does not name the user
QRTokenOfTime(u, t) == <<"USER", t>>
QRToken(u, t) == <<u, t>>              \* `USER_${userId}_${Date.now()}`

VARIABLES
  schedules,       \* ids of the documents of courseSchedules
  reservations,    \* helmet reservation documents, index = document id
  qrCodes,         \* user QR code documents
  notifications,   \* number of notification documents
  now,             \* the last value Date.now() returned
  received,        \* number of requests that got past their first step
  req,             \* request handlers: inputs, locals, position, response
  scanner          \* the HelmetReservationScanner component of a coach's browser

vars ==
  <<schedules, reservations, qrCodes, notifications, now, received, req, scanner>>

ReqIds == 1..MaxReq

Idle ==
  [kind |-> "none", pc |-> "idle",
   userId |-> "", scheduleId |-> "", qrCodeData |-> NoToken,
   reservationId |-> 0, token |-> NoToken,
   coachId |-> "", courseId |-> "", range |-> <<0, 0>>,
   matched |-> <<>>, toCancel |-> <<>>,
   deletedCount |-> 0, cancelledReservationsCount |-> 0, errors |-> <<>>,
   http |-> 0, status |-> "", valid |-> FALSE, success |-> FALSE,
   emailSent |-> FALSE, writes |-> 0]

\* a response is being sent: nothing else runs before it is out
Replying == \E r \in ReqIds : req[r].pc = "done"

\* the handler r is at the await named at
At(r, at) == ~Replying /\ req[r].pc = at

\* a request is taken by the first handler that is not busy
Free(r) ==
  /\ ~Replying
  /\ received < MaxRequests
  /\ At(r, "idle")
  /\ \A q \in ReqIds : q < r => req[q].pc # "idle"

Respond(rec, code) == [rec EXCEPT !.pc = "done", !.http = code]

\* --------------------------------------------------------- store accessors
ReservationsOf(u, s) ==
  {i \in DOMAIN reservations :
     reservations[i].userId = u /\ reservations[i].scheduleId = s}

QRCodesOfUser(u) == {i \in DOMAIN qrCodes : qrCodes[i].userId = u}

QRCodesOfData(q) == {i \in DOMAIN qrCodes : qrCodes[i].qrCodeData = q}

Active(st) == st \in {"booked", "checked_in"}

\* the scanner as it is mounted, with isOpen false: no video element, no
\* camera stream, no sampling loop, nothing shown
Closed ==
  [mounted |-> TRUE, isOpen |-> FALSE, scanResult |-> "none", error |-> "",
   video |-> 0, elements |-> 0, srcObject |-> [e \in 1..MaxStarts |-> 0],
   starts |-> 0, pending |-> 0, streams |-> 0, live |-> {},
   sampling |-> {}, loopVideo |-> [l \in 1..MaxStarts |-> 0],
   animationFrameRef |-> 0, fetching |-> 0, timers |-> 0, oldTimers |-> 0]

Init ==
  /\ schedules = ScheduleIds
  /\ reservations = <<>>
  /\ qrCodes = <<>>
  /\ notifications = 0
  /\ now = 0
  /\ received = 0
  /\ req = [r \in ReqIds |-> Idle]
  /\ scanner = Closed

\* Date.now(): the clock never runs backwards
Times == now..MaxClock

\* a handler that answers in its first step is not counted
Received(r) ==
  received' = IF req'[r].pc = "done" THEN received ELSE received + 1

\* ------------------------------------------- POST /helmet-reservations/create
\* mutant: the schedule is not looked up
CreateRefusalUserOnly(u, s) ==
  IF u = "" \/ s = "" THEN 400
  ELSE IF u \notin Users THEN 404
  ELSE 0

\* lines 11-34: the answer to a request that does not reach the duplicate
\* check, 0 = go on
CreateRefusal(u, s) ==
  IF u = "" \/ s = "" THEN 400
  ELSE IF u \notin Users THEN 404
  ELSE IF s \notin schedules THEN 404
  ELSE 0

\* lines 5-34: body parsed and validated, userService.getById,
\* scheduleService.getById
StartCreate(r, u, s) ==
  /\ Free(r)
  /\ LET q == [Idle EXCEPT !.kind = "create", !.userId = u, !.scheduleId = s]
     IN req' = [req EXCEPT ![r] =
          IF CreateRefusal(u, s) # 0
          THEN [Respond(q, CreateRefusal(u, s)) EXCEPT !.status =
                  IF u = "" \/ s = "" THEN "missing_fields"
                  ELSE IF u \notin Users THEN "user_not_found"
                  ELSE "schedule_not_found"]
          ELSE [q EXCEPT !.pc = "c_getExisting"]]
  /\ UNCHANGED <<scanner, schedules, reservations, qrCodes, notifications, now>>
  /\ Received(r)

\* mutant: a cancelled reservation blocks a new booking too
DuplicateFoundAnyStatus(existing) == existing # 0

\* line 38: the duplicate test on the document the accessor returned (0 = null)
DuplicateFound(existing) ==
  existing # 0 /\ reservations[existing].status # "cancelled"

\* lines 36-43: helmetReservationService.getByUserAndSchedule and the test
CreateGetExisting(r) ==
  /\ At(r, "c_getExisting")
  /\ \E existing \in
         IF ReservationsOf(req[r].userId, req[r].scheduleId) = {}
         THEN {0} ELSE ReservationsOf(req[r].userId, req[r].scheduleId) :
       req' = [req EXCEPT ![r] =
         IF DuplicateFound(existing)
         THEN [Respond(req[r], 400) EXCEPT !.status = "duplicate"]
         ELSE [req[r] EXCEPT !.pc = "c_getQR"]]
  /\ UNCHANGED <<scanner, schedules, reservations, qrCodes, notifications, now, received>>

\* create requests on their way to a reservation document
Creating ==
  Cardinality({q \in ReqIds :
     req[q].pc \in {"c_createQR", "c_rereadQR", "c_createReservation"}})

\* lines 45-49: userQRCodeService.getByUserId; the token is derived from
\* Date.now() as soon as the lookup has returned nothing (the store is kept
\* to cap reservation documents: a request beyond that goes no further)
CreateGetQR(r, cap) ==
  /\ At(r, "c_getQR")
  /\ Len(reservations) + Creating < cap
  /\ IF QRCodesOfUser(req[r].userId) = {}
     THEN \E t \in Times :
            /\ now' = t
            /\ req' = [req EXCEPT ![r] =
                 [req[r] EXCEPT !.pc = "c_createQR",
                                !.token = QRToken(req[r].userId, t)]]
     ELSE \E i \in QRCodesOfUser(req[r].userId) :
            /\ now' = now
            /\ req' = [req EXCEPT ![r] =
                 [req[r] EXCEPT !.pc = "c_createReservation",
                                !.token = qrCodes[i].qrCodeData]]
  /\ UNCHANGED <<scanner, schedules, reservations, qrCodes, notifications, received>>

\* lines 50-63: QRCode.toDataURL, userQRCodeService.create
CreateQR(r) ==
  /\ At(r, "c_createQR")
  /\ qrCodes' = Append(qrCodes,
       [userId |-> req[r].userId, qrCodeData |-> req[r].token])
  /\ req' = [req EXCEPT ![r] =
       [req[r] EXCEPT !.pc = "c_rereadQR", !.writes = @ + 1]]
  /\ UNCHANGED <<scanner, schedules, reservations, notifications, now, received>>

\* lines 65-73: userQRCodeService.getByUserId again
CreateRereadQR(r) ==
  /\ At(r, "c_rereadQR")
  /\ IF QRCodesOfUser(req[r].userId) = {}
     THEN req' = [req EXCEPT ![r] =
            [Respond(req[r], 500) EXCEPT !.status = "qr_failed"]]
     ELSE \E i \in QRCodesOfUser(req[r].userId) :
            req' = [req EXCEPT ![r] =
              [req[r] EXCEPT !.pc = "c_createReservation",
                             !.token = qrCodes[i].qrCodeData]]
  /\ UNCHANGED <<scanner, schedules, reservations, qrCodes, notifications, now, received>>

\* lines 75-92: helmetReservationService.create
CreateReservation(r) ==
  /\ At(r, "c_createReservation")
  /\ reservations' = Append(reservations,
       [userId |-> req[r].userId, scheduleId |-> req[r].scheduleId,
        status |-> "booked", checkinTime |-> NoTime, qrCode |-> req[r].token])
  /\ req' = [req EXCEPT ![r] =
       [req[r] EXCEPT !.pc = "c_notify",
                      !.reservationId = Len(reservations) + 1,
                      !.writes = @ + 1]]
  /\ UNCHANGED <<scanner, schedules, qrCodes, notifications, now, received>>

\* lines 95-100: startTime instanceof Date ? startTime : startTime.toDate()
FormatThrows(s) ==
  ScheduleData[s].startTime.shape \notin {"date", "timestamp"}

\* lines 94-152: the dates are formatted, notificationService.create, the
\* confirmation email is sent or its failure is swallowed (the email reaches
\* no collection of the store)
CreateNotify(r) ==
  /\ At(r, "c_notify")
  /\ IF FormatThrows(req[r].scheduleId)
     THEN /\ req' = [req EXCEPT ![r] =
               [Respond(req[r], 500) EXCEPT !.status = "exception"]]
          /\ UNCHANGED notifications
     ELSE /\ notifications' = notifications + 1
          /\ \E sent \in BOOLEAN :
               req' = [req EXCEPT ![r] =
                 [Respond(req[r], 200) EXCEPT !.success = TRUE, !.status = "created",
                                               !.emailSent = sent, !.writes = @ + 1]]
  /\ UNCHANGED <<scanner, schedules, reservations, qrCodes, now, received>>

\* --------------------------------------------- POST /helmet-reservations/scan
\* what a scanner may submit: a token some user was or will be issued, a
\* foreign string, nothing
ScanInputs ==
  {QRToken(u, t) : u \in Users, t \in 0..MaxClock} \cup {BogusToken, NoToken}

\* mutant: a negative outcome is answered as an error
NegativeAsError(rec, st) == [Respond(rec, 404) EXCEPT !.status = st, !.valid = FALSE]

\* a structured negative result: HTTP 200, valid: false
Negative(rec, st) == [Respond(rec, 200) EXCEPT !.status = st, !.valid = FALSE]

\* mutant: the schedule is looked up before the token
StartScanScheduleFirst(r, q, s) ==
  /\ Free(r)
  /\ LET rec == [Idle EXCEPT !.kind = "scan", !.qrCodeData = q, !.scheduleId = s]
     IN IF q = NoToken \/ s = ""
        THEN req' = [req EXCEPT ![r] =
               [Respond(rec, 400) EXCEPT !.status = "missing_fields"]]
        ELSE IF s \notin schedules
        THEN req' = [req EXCEPT ![r] = Negative(rec, "invalid_schedule")]
        ELSE IF QRCodesOfData(q) = {}
        THEN req' = [req EXCEPT ![r] = Negative(rec, "invalid_qr")]
        ELSE \E i \in QRCodesOfData(q) :
               req' = [req EXCEPT ![r] =
                 [rec EXCEPT !.pc = "s_getSchedule", !.userId = qrCodes[i].userId]]
  /\ UNCHANGED <<scanner, schedules, reservations, qrCodes, notifications, now>>
  /\ Received(r)

\* lines 4-25: body parsed and validated, userQRCodeService.getByQRCodeData
StartScan(r, q, s) ==
  /\ Free(r)
  /\ LET rec == [Idle EXCEPT !.kind = "scan", !.qrCodeData = q, !.scheduleId = s]
     IN IF q = NoToken \/ s = ""
        THEN req' = [req EXCEPT ![r] =
               [Respond(rec, 400) EXCEPT !.status = "missing_fields"]]
        ELSE IF QRCodesOfData(q) = {}
        THEN req' = [req EXCEPT ![r] = Negative(rec, "invalid_qr")]
        ELSE \E i \in QRCodesOfData(q) :
               req' = [req EXCEPT ![r] =
                 [rec EXCEPT !.pc = "s_getSchedule", !.userId = qrCodes[i].userId]]
  /\ UNCHANGED <<scanner, schedules, reservations, qrCodes, notifications, now>>
  /\ Received(r)

\* lines 27-35: scheduleService.getById
ScanGetSchedule(r) ==
  /\ At(r, "s_getSchedule")
  /\ req' = [req EXCEPT ![r] =
       IF req[r].scheduleId \in schedules
       THEN [req[r] EXCEPT !.pc = "s_getReservation"]
       ELSE Negative(req[r], "invalid_schedule")]
  /\ UNCHANGED <<scanner, schedules, reservations, qrCodes, notifications, now, received>>

\* lines 43-73: the tests on the document the accessor returned (0 = null)
ScanOutcome(found) ==
  IF found = 0 THEN "no_reservation"
  ELSE IF reservations[found].status = "checked_in" THEN "already_checked_in"
  ELSE IF reservations[found].status = "cancelled" THEN "cancelled"
  ELSE "success"

\* lines 37-71: helmetReservationService.getByUserAndSchedule and the tests
ScanGetReservation(r) ==
  /\ At(r, "s_getReservation")
  /\ \E found \in
         IF ReservationsOf(req[r].userId, req[r].scheduleId) = {}
         THEN {0} ELSE ReservationsOf(req[r].userId, req[r].scheduleId) :
       req' = [req EXCEPT ![r] =
         IF ScanOutcome(found) = "success"
         THEN [req[r] EXCEPT !.pc = "s_checkIn", !.reservationId = found]
         ELSE Negative(req[r], ScanOutcome(found))]
  /\ UNCHANGED <<scanner, schedules, reservations, qrCodes, notifications, now, received>>

\* helmetReservationService.checkIn(id): one update of the document
CheckedIn(id, t) ==
  [reservations EXCEPT ![id].status = "checked_in", ![id].checkinTime = t]

\* lines 73-85: the check-in is written and reported
ScanCheckIn(r) ==
  /\ At(r, "s_checkIn")
  /\ \E t \in Times :
       /\ now' = t
       /\ reservations' = CheckedIn(req[r].reservationId, t)
  /\ req' = [req EXCEPT ![r] =
       [Respond(req[r], 200) EXCEPT !.status = "success", !.valid = TRUE,
                                     !.writes = @ + 1]]
  /\ UNCHANGED <<scanner, schedules, qrCodes, notifications, received>>

\* ------------------------------------ DELETE /helmet-reservations/{reservationId}
\* mutant: the status of the reservation is not looked at
DeleteRefusalMissingOnly(id) ==
  IF id \notin DOMAIN reservations THEN 404 ELSE 0

\* mutant: only a booked reservation can be cancelled
DeleteRefusalUnlessBooked(id) ==
  IF id \notin DOMAIN reservations THEN 404
  ELSE IF reservations[id].status # "booked" THEN 400
  ELSE 0

\* lines 20-33: the answer to the document getById returned, 0 = go on
DeleteRefusal(id) ==
  IF id \notin DOMAIN reservations THEN 404
  ELSE IF reservations[id].status = "checked_in" THEN 400
  ELSE 0

\* lines 4-33: helmetReservationService.getById and the tests (the path
\* parameter of a routed request is never empty)
StartDelete(r, id) ==
  /\ Free(r)
  /\ LET rec == [Idle EXCEPT !.kind = "delete", !.reservationId = id]
     IN req' = [req EXCEPT ![r] =
          IF DeleteRefusal(id) # 0
          THEN [Respond(rec, DeleteRefusal(id)) EXCEPT !.status =
                  IF DeleteRefusal(id) = 404 THEN "not_found" ELSE "checked_in"]
          ELSE [rec EXCEPT !.pc = "d_cancel"]]
  /\ UNCHANGED <<scanner, schedules, reservations, qrCodes, notifications, now>>
  /\ Received(r)

\* helmetReservationService.cancel(id): one update of the document
Cancelled(id) == [reservations EXCEPT ![id].status = "cancelled"]

\* lines 35-41: the cancellation is written and reported
DeleteCancel(r) ==
  /\ At(r, "d_cancel")
  /\ reservations' = Cancelled(req[r].reservationId)
  /\ req' = [req EXCEPT ![r] =
       [Respond(req[r], 200) EXCEPT !.success = TRUE, !.status = "cancelled",
                                     !.writes = @ + 1]]
  /\ UNCHANGED <<scanner, schedules, qrCodes, notifications, now, received>>

\* ------------------------------------------------ POST /schedules/bulk-delete
\* order of the documents in a snapshot
ScheduleOrder == <<"s1", "s2", "s3", "s4">>
\* the request bodies <<coachId, courseId, <<startDate, endDate>>>> ("" and 0:
\* not given, "cx": no such course): one for each way through the handler
BulkInputs ==
  {<<"", "c1", <<0, 0>>>>, <<"k1", "", <<0, 0>>>>, <<"k1", "cx", <<0, 0>>>>,
   <<"k2", "c1", <<0, 0>>>>, <<"k2", "c2", <<0, 0>>>>, <<"k1", "c1", <<0, 0>>>>,
   <<"k1", "c1", <<2, 2>>>>, <<"k1", "", <<1, 1>>>>, <<"k1", "", <<2, 0>>>>,
   <<"k2", "", <<0, 2>>>>}

\* lines 13-26
BulkInvalid(k, c, range) == k = "" \/ (c = "" /\ range[1] = 0 /\ range[2] = 0)

\* lines 28-33: getDocs(collection(db, 'courseSchedules'))
Snapshot == SelectSeq(ScheduleOrder, LAMBDA s : s \in schedules)

\* mutant: the owner of the course is not compared with the coach
CourseRefusalMissingOnly(c, k) == IF c \notin Courses THEN 404 ELSE 0

\* lines 40-56: the answer to the course lookup, 0 = go on
CourseRefusal(c, k) ==
  IF c \notin Courses THEN 404
  ELSE IF CourseCoach[c] # k THEN 403
  ELSE 0

\* line 60
MatchesCourse(s, c) == ScheduleData[s].courseId = c

\* mutant: every schedule passes the ownership filter
OwnedByAnyone(s, k) == TRUE

\* lines 68-82
OwnedBy(s, k) ==
  \/ ScheduleData[s].createdBy = k
  \/ \E c \in Courses : c = ScheduleData[s].courseId /\ CourseCoach[c] = k

\* lines 99-131: the start date of the range is 00:00:00.000 of its day and the
\* end date 23:59:59.999 of its day, so only the day of startTime decides; a
\* string that is not a date gives an Invalid Date, which is neither before
\* nor after any date
InRange(s, range) ==
  LET st == ScheduleData[s].startTime IN
  /\ st.shape # "missing"
  /\ ~(range[1] # 0 /\ st.shape # "invalid" /\ st.day < range[1])
  /\ ~(range[2] # 0 /\ st.shape # "invalid" /\ st.day > range[2])

\* mutant: the date range is not applied
FilteredNoRange(snapshot, k, c, range) ==
  IF c # "" THEN SelectSeq(snapshot, LAMBDA s : MatchesCourse(s, c))
  ELSE SelectSeq(snapshot, LAMBDA s : OwnedBy(s, k))

\* lines 37-133: the filters applied to the snapshot
Filtered(snapshot, k, c, range) ==
  LET owned == IF c # "" THEN SelectSeq(snapshot, LAMBDA s : MatchesCourse(s, c))
               ELSE SelectSeq(snapshot, LAMBDA s : OwnedBy(s, k))
  IN IF range[1] # 0 \/ range[2] # 0
     THEN SelectSeq(owned, LAMBDA s : InRange(s, range))
     ELSE owned

\* lines 6-143: body parsed and validated, the snapshot of the schedules,
\* courseService.getById or getAll, the filters, the empty result
StartBulk(r, k, c, range) ==
  /\ Free(r)
  /\ LET q == [Idle EXCEPT !.kind = "bulk", !.coachId = k, !.courseId = c,
                           !.range = range]
         m == Filtered(Snapshot, k, c, range)
     IN req' = [req EXCEPT ![r] =
          IF BulkInvalid(k, c, range)
          THEN [Respond(q, 400) EXCEPT !.status = "invalid"]
          ELSE IF c # "" /\ CourseRefusal(c, k) # 0
          THEN [Respond(q, CourseRefusal(c, k)) EXCEPT !.status =
                  IF CourseRefusal(c, k) = 404 THEN "course_not_found" ELSE "forbidden"]
          ELSE IF m = <<>>
          THEN [Respond(q, 200) EXCEPT !.success = FALSE, !.status = "none_matched"]
          ELSE [q EXCEPT !.pc = "b_getReservations", !.matched = m]]
  /\ UNCHANGED <<scanner, schedules, reservations, qrCodes, notifications, now>>
  /\ Received(r)

\* mutant: every reservation of the schedule is cancelled, whatever its status
ToCancelAnyStatus(s) ==
  SelectSeq([i \in 1..Len(reservations) |-> i],
            LAMBDA i : reservations[i].scheduleId = s)

\* line 156: the reservations of a snapshot the loop will cancel
ToCancel(s) ==
  SelectSeq([i \in 1..Len(reservations) |-> i],
            LAMBDA i : /\ reservations[i].scheduleId = s
                       /\ reservations[i].status # "checked_in"
                       /\ reservations[i].status # "cancelled")

\* line 154: helmetReservationService.getByScheduleId
BulkGetReservations(r) ==
  /\ At(r, "b_getReservations")
  /\ LET tc == ToCancel(Head(req[r].matched))
     IN req' = [req EXCEPT ![r] =
          [req[r] EXCEPT !.pc = IF tc = <<>> THEN "b_delete" ELSE "b_cancel",
                         !.toCancel = tc]]
  /\ UNCHANGED <<scanner, schedules, reservations, qrCodes, notifications, now, received>>

\* lines 155-160: helmetReservationService.cancel for one reservation of the snapshot
BulkCancel(r) ==
  /\ At(r, "b_cancel")
  /\ reservations' = Cancelled(Head(req[r].toCancel))
  /\ req' = [req EXCEPT ![r] =
       [req[r] EXCEPT !.pc = IF Tail(req[r].toCancel) = <<>>
                             THEN "b_delete" ELSE "b_cancel",
                      !.toCancel = Tail(@),
                      !.cancelledReservationsCount = @ + 1,
                      !.writes = @ + 1]]
  /\ UNCHANGED <<scanner, schedules, qrCodes, notifications, now, received>>

\* lines 165-182: deleteDoc of the schedule, then the next schedule or the result
BulkDeleteSchedule(r) ==
  /\ At(r, "b_delete")
  /\ schedules' = schedules \ {Head(req[r].matched)}
  /\ req' = [req EXCEPT ![r] =
       IF Tail(req[r].matched) = <<>>
       THEN [Respond(req[r], 200) EXCEPT !.matched = <<>>, !.success = TRUE,
                                         !.status = "deleted",
                                         !.deletedCount = @ + 1, !.writes = @ + 1]
       ELSE [req[r] EXCEPT !.pc = "b_getReservations", !.matched = Tail(@),
                           !.deletedCount = @ + 1, !.writes = @ + 1]]
  /\ UNCHANGED <<scanner, reservations, qrCodes, notifications, now, received>>

\* every handler: the response is sent (return NextResponse.json(...))
Reply(r) ==
  /\ req[r].pc = "done"
  /\ req' = [req EXCEPT ![r] = Idle]
  /\ UNCHANGED <<scanner, schedules, reservations, qrCodes, notifications, now, received>>

\* --------------------------------------------------------- storage failures
\* create, lines 119-125 and 154-159: notificationService.create throws; only
\* the catch of the whole handler is around it
CreateNotifyFails(r) ==
  /\ At(r, "c_notify")
  /\ ~FormatThrows(req[r].scheduleId)
  /\ req' = [req EXCEPT ![r] =
       [Respond(req[r], 500) EXCEPT !.status = "exception"]]
  /\ UNCHANGED <<scanner, schedules, reservations, qrCodes, notifications, now, received>>

\* bulk-delete, lines 152-163: getByScheduleId throws; the catch around the
\* cascade logs it and the handler goes on to delete the schedule
BulkGetReservationsFails(r) ==
  /\ At(r, "b_getReservations")
  /\ req' = [req EXCEPT ![r] =
       [req[r] EXCEPT !.pc = "b_delete", !.toCancel = <<>>]]
  /\ UNCHANGED <<scanner, schedules, reservations, qrCodes, notifications, now, received>>

\* bulk-delete, lines 155-163: helmetReservationService.cancel throws; the
\* rest of the cascade is skipped and the handler goes on to delete the schedule
BulkCancelFails(r) ==
  /\ At(r, "b_cancel")
  /\ req' = [req EXCEPT ![r] =
       [req[r] EXCEPT !.pc = "b_delete", !.toCancel = <<>>]]
  /\ UNCHANGED <<scanner, schedules, reservations, qrCodes, notifications, now, received>>

\* mutant: a failed deleteDoc ends the request
BulkDeleteFailsStops(r) ==
  /\ At(r, "b_delete")
  /\ req' = [req EXCEPT ![r] =
       [Respond(req[r], 500) EXCEPT !.matched = <<>>, !.status = "exception",
                                    !.errors = Append(@, Head(req[r].matched))]]
  /\ UNCHANGED <<scanner, schedules, reservations, qrCodes, notifications, now, received>>

\* bulk-delete, lines 166 and 169-182: deleteDoc throws; the catch of the loop
\* body records the schedule, then the next schedule or the result
BulkDeleteFails(r) ==
  /\ At(r, "b_delete")
  /\ req' = [req EXCEPT ![r] =
       IF Tail(req[r].matched) = <<>>
       THEN [Respond(req[r], 200) EXCEPT !.matched = <<>>, !.success = TRUE,
                                         !.status = "deleted",
                                         !.errors = Append(@, Head(req[r].matched))]
       ELSE [req[r] EXCEPT !.pc = "b_getReservations", !.matched = Tail(@),
                           !.errors = Append(@, Head(req[r].matched))]]
  /\ UNCHANGED <<scanner, schedules, reservations, qrCodes, notifications, now, received>>

\* ------------------------------------------------- HelmetReservationScanner
\* the handlers of the store take no part in what the scanner does
server == <<schedules, reservations, qrCodes, notifications, now, received, req>>

\* lines 825 and 860-868: the <video> element is on the page while the
\* scanner is open and shows neither a result nor an error
Rendered(sc) ==
  sc.mounted /\ sc.isOpen /\ sc.scanResult = "none" /\ sc.error = ""

\* the commit of a render: videoRef.current is the <video> element on the
\* page, a new one each time it appears, null (0) once it is removed
Render(sc) ==
  IF Rendered(sc) /\ sc.video = 0
  THEN [sc EXCEPT !.video = sc.elements + 1, !.elements = @ + 1]
  ELSE IF ~Rendered(sc) THEN [sc EXCEPT !.video = 0]
  ELSE sc

\* lines 742-754: the tracks of the stream of the current <video> element
\* are stopped, the animation frame last requested is cancelled
stopCamera(sc) ==
  LET attached == IF sc.video = 0 THEN 0 ELSE sc.srcObject[sc.video] IN
  [sc EXCEPT !.live = @ \ {attached},
             !.srcObject = IF sc.video = 0 THEN @
                           ELSE [@ EXCEPT ![sc.video] = 0],
             !.sampling = @ \ {sc.animationFrameRef}]

\* lines 724-727: startCamera up to its await of getUserMedia
startCamera(sc) == [sc EXCEPT !.pending = @ + 1, !.starts = @ + 1]

\* lines 712-722, isOpen turns true: the cleanup of the last effect, then
\* startCamera
OpenScanner ==
  /\ scanner.mounted /\ ~scanner.isOpen
  /\ scanner.starts < MaxStarts
  /\ scanner' = startCamera(stopCamera(Render([scanner EXCEPT !.isOpen = TRUE])))
  /\ UNCHANGED server

\* lines 712-722, isOpen turns false (onClose of the close button or of the
\* backdrop): the component renders nothing, then the cleanup and the effect
\* call stopCamera
CloseScanner ==
  /\ scanner.mounted /\ scanner.isOpen
  /\ scanner' = stopCamera(Render([scanner EXCEPT !.isOpen = FALSE]))
  /\ UNCHANGED server

\* lines 719-721: the component is torn down, the cleanup calls stopCamera
UnmountScanner ==
  /\ scanner.mounted
  /\ scanner' = stopCamera(Render([scanner EXCEPT !.mounted = FALSE]))
  /\ UNCHANGED server

\* lines 726-735 and 756-785: getUserMedia resolves with a new stream; with a
\* <video> element it is attached and played and scanQRCode starts a sampling
\* loop on that element (its first frame is not there yet, so the first call
\* of scan requests an animation frame)
getUserMediaResolves ==
  /\ scanner.pending > 0
  /\ LET n == scanner.streams + 1
         sc == [scanner EXCEPT !.pending = @ - 1, !.streams = n,
                               !.live = @ \cup {n}]
     IN scanner' =
          IF scanner.video = 0 THEN sc
          ELSE [sc EXCEPT !.srcObject = [@ EXCEPT ![scanner.video] = n],
                          !.sampling = @ \cup {n},
                          !.loopVideo = [@ EXCEPT ![n] = scanner.video],
                          !.animationFrameRef = n]
  /\ UNCHANGED server

\* lines 736-739: getUserMedia rejects, the camera error is shown
getUserMediaRejects ==
  /\ scanner.pending > 0
  /\ scanner' = Render([scanner EXCEPT !.pending = @ - 1,
                          !.error = IF scanner.mounted THEN "camera" ELSE @])
  /\ UNCHANGED server

\* the <video> element of the sampling loop l shows frames of a live stream
Decodable(l) == scanner.srcObject[scanner.loopVideo[l]] \in scanner.live

\* lines 765-782, no code in the frame: the next animation frame is requested
scan(l) ==
  /\ l \in scanner.sampling
  /\ scanner' = [scanner EXCEPT !.animationFrameRef = l]
  /\ UNCHANGED server

\* lines 765-778 and 787-801: jsQR finds a code in the frame; the loop
\* requests no further frame, handleQRCodeDetected stops the camera and sends
\* the scan request
handleQRCodeDetected(l) ==
  /\ l \in scanner.sampling
  /\ Decodable(l)
  /\ scanner' = [stopCamera([scanner EXCEPT !.sampling = @ \ {l}])
                   EXCEPT !.fetching = @ + 1]
  /\ UNCHANGED server

\* lines 803-816: the response is shown and, when it is valid, the 5 s timer
\* is armed; a failed request shows the error
scanResponse(outcome) ==
  /\ scanner.fetching > 0
  /\ scanner' =
       Render([scanner EXCEPT
         !.fetching = @ - 1,
         !.scanResult = IF scanner.mounted /\ outcome # "throws"
                        THEN outcome ELSE @,
         !.error = IF scanner.mounted /\ outcome = "throws" THEN "scan" ELSE @,
         !.timers = IF outcome = "valid" THEN @ + 1 ELSE @])
  /\ UNCHANGED server

\* lines 808-810: a timer fires and calls onClose (old: armed before the last
\* rescan)
autoClose(old) ==
  /\ IF old THEN scanner.oldTimers > 0 ELSE scanner.timers > 0
  /\ LET sc == IF old THEN [scanner EXCEPT !.oldTimers = @ - 1]
               ELSE [scanner EXCEPT !.timers = @ - 1]
     IN scanner' = IF sc.mounted /\ sc.isOpen
                   THEN stopCamera(Render([sc EXCEPT !.isOpen = FALSE]))
                   ELSE sc
  /\ UNCHANGED server

\* lines 819-823: the result and the error are cleared, startCamera
handleRescan ==
  /\ scanner.mounted /\ scanner.isOpen
  /\ scanner.scanResult # "none" \/ scanner.error # ""
  /\ scanner.starts < MaxStarts
  /\ scanner' =
       Render(startCamera([scanner EXCEPT !.scanResult = "none", !.error = "",
                                          !.oldTimers = @ + scanner.timers,
                                          !.timers = 0]))
  /\ UNCHANGED server

\* ---------------------------------------------------------------- behaviours
\* the steps of the create handler
CreateStep(r, cap) ==
  \/ \E in \in CreateInputs : StartCreate(r, in[1], in[2])
  \/ CreateGetExisting(r)
  \/ CreateGetQR(r, cap)
  \/ CreateQR(r)
  \/ CreateRereadQR(r)
  \/ CreateReservation(r)
  \/ CreateNotify(r)

\* the steps of the bulk-delete handler
BulkStep(r) ==
  \/ \E in \in BulkInputs : StartBulk(r, in[1], in[2], in[3])
  \/ BulkGetReservations(r)
  \/ BulkCancel(r)
  \/ BulkDeleteSchedule(r)

Step(r) ==
  \/ CreateStep(r, MaxReservations)
  \/ \E q \in ScanInputs, s \in ScheduleIds \cup {""} : StartScan(r, q, s)
  \/ ScanGetSchedule(r)
  \/ ScanGetReservation(r)
  \/ ScanCheckIn(r)
  \/ \E id \in 1..MaxReservations : StartDelete(r, id)
  \/ DeleteCancel(r)
  \/ BulkStep(r)

Next == \E r \in ReqIds : Step(r) \/ Reply(r)

Spec == Init /\ [][Next]_vars

\* only bookings are made, by concurrent create requests
NextBook == \E r \in ReqIds : CreateStep(r, MaxBookings) \/ Reply(r)

SpecBook == Init /\ [][NextBook]_vars

\* one request at a time: every request is answered before the next arrives
NextAlone == Step(1) \/ Reply(1)

SpecAlone == Init /\ [][NextAlone]_vars

\* one request at a time on a store whose calls may fail
NextFaults ==
  \/ Step(1)
  \/ CreateNotifyFails(1)
  \/ BulkGetReservationsFails(1)
  \/ BulkCancelFails(1)
  \/ BulkDeleteFails(1)
  \/ Reply(1)

SpecFaults == Init /\ [][NextFaults]_vars

\* one request at a time on a store that also holds the older schedule documents
InitDates ==
  /\ schedules = ScheduleIds \cup LegacySchedules
  /\ reservations = <<>>
  /\ qrCodes = <<>>
  /\ notifications = 0
  /\ now = 0
  /\ received = 0
  /\ req = [r \in ReqIds |-> Idle]
  /\ scanner = Closed

SpecDates == InitDates /\ [][NextAlone]_vars

\* the scanner in the browser: the parent opens and closes it, the camera, the
\* animation frames, the scan request and the timers answer in any order
NextScanner ==
  \/ OpenScanner
  \/ CloseScanner
  \/ UnmountScanner
  \/ getUserMediaResolves
  \/ getUserMediaRejects
  \/ \E l \in 1..MaxStarts : scan(l)
  \/ \E l \in 1..MaxStarts : handleQRCodeDetected(l)
  \/ \E outcome \in {"valid", "invalid", "throws"} : scanResponse(outcome)
  \/ \E old \in BOOLEAN : autoClose(old)
  \/ handleRescan

SpecScanner == Init /\ [][NextScanner]_vars

\* ------------------------------------------------------------------- claims
Store == <<schedules, reservations, qrCodes, notifications>>

\* the handler r takes a step
Stepped(r) == req'[r] # req[r]

\* the handler r answers in this step
Answers(r, kind) ==
  req[r].pc # "done" /\ req'[r].pc = "done" /\ req'[r].kind = kind

SamePair(i, j) ==
  /\ reservations[i].userId = reservations[j].userId
  /\ reservations[i].scheduleId = reservations[j].scheduleId

HasActive(u, s) == \E i \in ReservationsOf(u, s) : Active(reservations[i].status)

\* C1: in every reachable state a (userId, scheduleId) pair has at most one
\* reservation whose status is booked or checked_in.
C1_OneActivePerPair ==
  \A i, j \in DOMAIN reservations :
    (i # j /\ SamePair(i, j))
      => ~(Active(reservations[i].status) /\ Active(reservations[j].status))

\* C2: a create request that runs its duplicate check while the pair has a
\* booked or checked_in reservation is answered 400 and has written nothing:
\* no reservation, no QR identity, no notification.
C2_DuplicateRejected ==
  [][\A r \in ReqIds :
       (req[r].pc = "c_getExisting" /\ Stepped(r)
          /\ HasActive(req[r].userId, req[r].scheduleId))
         => /\ req'[r].pc = "done" /\ req'[r].http = 400
            /\ req'[r].writes = 0
            /\ Store' = Store]_vars

\* the pair holds one reservation and it is cancelled
OnlyCancelled(u, s) ==
  /\ Cardinality(ReservationsOf(u, s)) = 1
  /\ \A i \in ReservationsOf(u, s) : reservations[i].status = "cancelled"

\* C3: a create request for an existing user and schedule that finds the only
\* reservation of the pair cancelled passes the duplicate check; from there on
\* it is never refused, it appends a reservation of the pair with status
\* booked, and it answers 200.
C3_RebookAfterCancel ==
  [][\A r \in ReqIds :
       /\ (req[r].pc = "c_getExisting" /\ Stepped(r)
             /\ OnlyCancelled(req[r].userId, req[r].scheduleId))
            => req'[r].pc = "c_getQR"
       /\ (req[r].pc = "c_createReservation" /\ Stepped(r))
            => /\ Len(reservations') = Len(reservations) + 1
               /\ reservations'[Len(reservations')].status = "booked"
               /\ reservations'[Len(reservations')].userId = req[r].userId
               /\ reservations'[Len(reservations')].scheduleId = req[r].scheduleId
               /\ req'[r].reservationId = Len(reservations')
       /\ (Answers(r, "create")
             /\ req[r].pc \in {"c_getQR", "c_createQR", "c_rereadQR",
                               "c_createReservation", "c_notify"})
            => /\ req'[r].http = 200 /\ req'[r].success
               /\ req[r].pc = "c_notify"
               /\ req'[r].reservationId \in DOMAIN reservations]_vars

\* a create request has answered 200 for a pair whose earlier reservation is
\* cancelled, and the reservation it made is booked
C3_Witness ==
  \E r \in ReqIds :
    /\ req[r].kind = "create" /\ req[r].pc = "done" /\ req[r].http = 200
    /\ reservations[req[r].reservationId].status = "booked"
    /\ \E i \in ReservationsOf(req[r].userId, req[r].scheduleId) :
         /\ i < req[r].reservationId
         /\ reservations[i].status = "cancelled"
    /\ Cardinality(ReservationsOf(req[r].userId, req[r].scheduleId)) = 2

\* C4: once a reservation's status is checked_in it stays checked_in.
C4_CheckedInStays ==
  [][\A i \in DOMAIN reservations :
       reservations[i].status = "checked_in"
         => reservations'[i].status = "checked_in"]_vars

\* C5: a DELETE request that reads a reservation whose status is checked_in
\* answers 400 and leaves every stored record as it is.
C5_DeleteCheckedIn ==
  [][\A r \in ReqIds :
       (req[r].pc = "idle" /\ req'[r].kind = "delete"
          /\ req'[r].reservationId \in DOMAIN reservations
          /\ reservations[req'[r].reservationId].status = "checked_in")
         => /\ req'[r].pc = "done" /\ req'[r].http = 400
            /\ req'[r].writes = 0
            /\ Store' = Store]_vars

\* a DELETE request on a checked-in reservation has been answered 400
C5_Witness ==
  \E r \in ReqIds :
    /\ req[r].kind = "delete" /\ req[r].pc = "done" /\ req[r].http = 400
    /\ req[r].reservationId \in DOMAIN reservations
    /\ reservations[req[r].reservationId].status = "checked_in"

\* C6: once a reservation's status is cancelled it stays cancelled.
C6_CancelledStays ==
  [][\A i \in DOMAIN reservations :
       reservations[i].status = "cancelled"
         => reservations'[i].status = "cancelled"]_vars

\* the reservations of the owner of the token for the schedule of the scan
ScanPair(r) == ReservationsOf(req[r].userId, req[r].scheduleId)

ScanSays(r, st) == req'[r].pc = "done" /\ req'[r].status = st

\* C7: a scan answers with the first check that applies: unknown token gives
\* invalid_qr (whatever the schedule), else missing schedule gives
\* invalid_schedule, else no reservation of the owner for the schedule gives
\* no_reservation, else a checked_in reservation gives already_checked_in,
\* else a cancelled one gives cancelled, else the check-in is written and the
\* answer is success.
C7_FirstCheckWins ==
  [][\A r \in ReqIds :
       /\ (req[r].pc = "idle" /\ req'[r].kind = "scan" /\ req'[r].http # 400)
            => IF QRCodesOfData(req'[r].qrCodeData) = {}
               THEN ScanSays(r, "invalid_qr")
               ELSE /\ req'[r].pc = "s_getSchedule"
                    /\ \E i \in QRCodesOfData(req'[r].qrCodeData) :
                         req'[r].userId = qrCodes[i].userId
       /\ (req[r].pc = "s_getSchedule" /\ Stepped(r))
            => IF req[r].scheduleId \notin schedules
               THEN ScanSays(r, "invalid_schedule")
               ELSE req'[r].pc = "s_getReservation"
       /\ (req[r].pc = "s_getReservation" /\ Stepped(r))
            => IF ScanPair(r) = {}
               THEN ScanSays(r, "no_reservation")
               ELSE \E i \in ScanPair(r) :
                      IF reservations[i].status = "checked_in"
                      THEN ScanSays(r, "already_checked_in")
                      ELSE IF reservations[i].status = "cancelled"
                      THEN ScanSays(r, "cancelled")
                      ELSE req'[r].pc = "s_checkIn" /\ req'[r].reservationId = i
       /\ (req[r].pc = "s_checkIn" /\ Stepped(r))
            => ScanSays(r, "success")]_vars

\* a scan of an unknown token for a schedule that is gone has answered invalid_qr
C7_Witness ==
  \E r \in ReqIds :
    /\ req[r].kind = "scan" /\ req[r].pc = "done" /\ req[r].status = "invalid_qr"
    /\ req[r].scheduleId \notin schedules
    /\ QRCodesOfData(req[r].qrCodeData) = {}

\* C8: a scan that looks up the reservation while the owner of the token has a
\* booked reservation for the schedule goes on to check a booked reservation
\* in; the check-in sets the status to checked_in with a check-in time and
\* answers valid with status success.
C8_BookedIsCheckedIn ==
  [][\A r \in ReqIds :
       /\ (req[r].pc = "s_getReservation" /\ Stepped(r)
             /\ \E i \in ScanPair(r) : reservations[i].status = "booked")
            => /\ req'[r].pc = "s_checkIn"
               /\ reservations[req'[r].reservationId].status = "booked"
       /\ (req[r].pc = "s_checkIn" /\ Stepped(r))
            => /\ reservations'[req[r].reservationId].status = "checked_in"
               /\ reservations'[req[r].reservationId].checkinTime # NoTime
               /\ ScanSays(r, "success") /\ req'[r].valid]_vars

\* C9: a scan that looks up the reservation while the owner of the token has a
\* checked_in reservation for the schedule answers already_checked_in, not
\* valid, and leaves the reservations (status and checkinTime) as they are.
C9_RescanReportsCheckedIn ==
  [][\A r \in ReqIds :
       (req[r].pc = "s_getReservation" /\ Stepped(r)
          /\ \E i \in ScanPair(r) : reservations[i].status = "checked_in")
         => /\ ScanSays(r, "already_checked_in")
            /\ ~req'[r].valid
            /\ reservations' = reservations]_vars

NegativeOutcomes ==
  {"invalid_qr", "invalid_schedule", "no_reservation", "already_checked_in",
   "cancelled"}

\* C10: a scan that answers with a negative outcome answers HTTP 200 with
\* valid false, has written nothing, and its answering step leaves every
\* reservation, QR identity and schedule as it is.
C10_NegativeScanIsPure ==
  [][\A r \in ReqIds :
       (Answers(r, "scan") /\ req'[r].status \in NegativeOutcomes)
         => /\ req'[r].http = 200
            /\ ~req'[r].valid
            /\ req'[r].writes = 0
            /\ Store' = Store]_vars

\* a scan of a cancelled reservation has been answered
C10_Witness ==
  \E r \in ReqIds :
    /\ req[r].kind = "scan" /\ req[r].pc = "done"
    /\ req[r].status = "cancelled" /\ req[r].http = 200 /\ ~req[r].valid
    /\ \E i \in ReservationsOf(req[r].userId, req[r].scheduleId) :
         reservations[i].status = "cancelled"

\* the identity of the user that was persisted first
FirstIdentity(u) ==
  CHOOSE i \in QRCodesOfUser(u) : \A j \in QRCodesOfUser(u) : i <= j

\* C11: a create request that resolves the QR identity of a user who already
\* has one creates no further identity and resolves to the token of the
\* user's first identity; the reservation it persists carries that token.
C11_SameTokenLater ==
  [][\A r \in ReqIds :
       /\ (req[r].pc = "c_getQR" /\ Stepped(r)
             /\ QRCodesOfUser(req[r].userId) # {})
            => /\ req'[r].pc = "c_createReservation"
               /\ qrCodes' = qrCodes
               /\ req'[r].token =
                    qrCodes[FirstIdentity(req[r].userId)].qrCodeData
       /\ (req[r].pc = "c_createReservation" /\ Stepped(r))
            => reservations'[Len(reservations')].qrCode = req[r].token]_vars

\* C12: in every reachable state a user has at most one persisted QR identity
\* and a token is held by the identities of one user only.
C12_OneIdentityPerUser ==
  \A i, j \in DOMAIN qrCodes :
    /\ i # j => qrCodes[i].userId # qrCodes[j].userId
    /\ qrCodes[i].qrCodeData = qrCodes[j].qrCodeData
         => qrCodes[i].userId = qrCodes[j].userId

\* C13: the qrCode of every persisted reservation is the token of a QR
\* identity of the reservation's user, and every identity a lookup of that
\* token can return belongs to that user.
C13_QrCodeNamesTheUser ==
  \A i \in DOMAIN reservations :
    /\ \E k \in QRCodesOfUser(reservations[i].userId) :
         qrCodes[k].qrCodeData = reservations[i].qrCode
    /\ \A k \in QRCodesOfData(reservations[i].qrCode) :
         qrCodes[k].userId = reservations[i].userId

\* two users hold reservations, and a scan of the qrCode of one of them has
\* checked that user's reservation in
C13_Witness ==
  \E r \in ReqIds :
    /\ req[r].kind = "scan" /\ req[r].pc = "done" /\ req[r].status = "success"
    /\ reservations[req[r].reservationId].qrCode = req[r].qrCodeData
    /\ reservations[req[r].reservationId].userId = req[r].userId
    /\ \E i \in DOMAIN reservations :
         reservations[i].userId # req[r].userId

\* C14: a create request with both fields given that names a user that does
\* not exist, or an existing user and a schedule that does not exist, is
\* answered 404 in its first step and has written nothing: no reservation, no
\* QR identity, no notification.
C14_MissingUserOrSchedule ==
  [][\A r \in ReqIds :
       (req[r].pc = "idle" /\ req'[r].kind = "create"
          /\ req'[r].userId # "" /\ req'[r].scheduleId # ""
          /\ (req'[r].userId \notin Users \/ req'[r].scheduleId \notin schedules))
         => /\ req'[r].pc = "done" /\ req'[r].http = 404
            /\ req'[r].writes = 0
            /\ Store' = Store]_vars

\* a create request of an existing user for a schedule that is gone has been
\* answered 404
C14_Witness ==
  \E r \in ReqIds :
    /\ req[r].kind = "create" /\ req[r].pc = "done" /\ req[r].http = 404
    /\ req[r].userId \in Users
    /\ req[r].scheduleId \notin schedules
    /\ req[r].writes = 0

\* C15: a create request that has persisted its reservation answers 200 with
\* success, whatever becomes of the notification and of the email; a create
\* request that answers with an error has persisted no reservation.
C15_PersistedMeansSuccess ==
  [][\A r \in ReqIds :
       Answers(r, "create")
         => /\ req[r].pc = "c_notify" => (req'[r].http = 200 /\ req'[r].success)
            /\ req'[r].http # 200 => req'[r].reservationId = 0]_vars

\* C16: a DELETE request that reads a reservation whose status is cancelled
\* is not refused and writes nothing in that step; the cancel it goes on to
\* answers 200 with success, leaves the status cancelled and, when the status
\* still is cancelled, changes no reservation.
C16_DeleteCancelledAgain ==
  [][\A r \in ReqIds :
       /\ (req[r].pc = "idle" /\ req'[r].kind = "delete"
             /\ req'[r].reservationId \in DOMAIN reservations
             /\ reservations[req'[r].reservationId].status = "cancelled")
            => /\ req'[r].pc = "d_cancel"
               /\ Store' = Store
       /\ (req[r].pc = "d_cancel" /\ Stepped(r))
            => /\ req'[r].pc = "done" /\ req'[r].http = 200 /\ req'[r].success
               /\ reservations'[req[r].reservationId].status = "cancelled"
               /\ reservations[req[r].reservationId].status = "cancelled"
                    => reservations' = reservations]_vars

\* a DELETE request is about to cancel a reservation that is cancelled
C16_Witness ==
  \E r \in ReqIds :
    /\ req[r].kind = "delete" /\ req[r].pc = "d_cancel"
    /\ reservations[req[r].reservationId].status = "cancelled"

\* C17: a bulk-delete request of a coach for an existing course of another
\* coach is answered 403 in its first step and has written nothing: every
\* schedule and every reservation is as it was.
C17_ForeignCourseForbidden ==
  [][\A r \in ReqIds :
       (req[r].pc = "idle" /\ req'[r].kind = "bulk"
          /\ req'[r].coachId # ""
          /\ req'[r].courseId \in Courses
          /\ CourseCoach[req'[r].courseId] # req'[r].coachId)
         => /\ req'[r].pc = "done" /\ req'[r].http = 403
            /\ req'[r].writes = 0
            /\ Store' = Store]_vars

\* a bulk-delete request for a course of another coach that has schedules has
\* been answered 403
C17_Witness ==
  \E r \in ReqIds :
    /\ req[r].kind = "bulk" /\ req[r].pc = "done" /\ req[r].http = 403
    /\ req[r].courseId \in Courses
    /\ CourseCoach[req[r].courseId] # req[r].coachId
    /\ \E s \in schedules : ScheduleData[s].courseId = req[r].courseId

\* the stored schedules a bulk-delete request <<k, c, range>> is about
Matching(k, c, range) ==
  {s \in schedules :
     /\ IF c # "" THEN ScheduleData[s].courseId = c
        ELSE \/ ScheduleData[s].createdBy = k
             \/ CourseCoach[ScheduleData[s].courseId] = k
     /\ range # <<0, 0>>
          => /\ ScheduleData[s].startTime.shape # "missing"
             /\ range[1] # 0 => ScheduleData[s].startTime.day >= range[1]
             /\ range[2] # 0 => ScheduleData[s].startTime.day <= range[2]}

\* C18: a well-formed bulk-delete request (of the owner, when a course is
\* given) that is about no stored schedule answers 200 with success false and
\* deletedCount 0 in its first step, and has written nothing.
C18_NoneMatched ==
  [][\A r \in ReqIds :
       (req[r].pc = "idle" /\ req'[r].kind = "bulk"
          /\ req'[r].coachId # ""
          /\ (req'[r].courseId # "" \/ req'[r].range # <<0, 0>>)
          /\ (req'[r].courseId # ""
                => /\ req'[r].courseId \in Courses
                   /\ CourseCoach[req'[r].courseId] = req'[r].coachId)
          /\ Matching(req'[r].coachId, req'[r].courseId, req'[r].range) = {})
         => /\ req'[r].pc = "done" /\ req'[r].http = 200
            /\ ~req'[r].success
            /\ req'[r].deletedCount = 0
            /\ req'[r].writes = 0
            /\ Store' = Store]_vars

\* a bulk-delete request for a course that has a schedule, none in the date
\* range, has been answered with success false
C18_Witness ==
  \E r \in ReqIds :
    /\ req[r].kind = "bulk" /\ req[r].pc = "done" /\ req[r].http = 200
    /\ ~req[r].success /\ req[r].deletedCount = 0
    /\ req[r].range # <<0, 0>>
    /\ \E s \in schedules : ScheduleData[s].courseId = req[r].courseId

\* C19: the delete call of a matched schedule either removes the schedule and
\* adds one to deletedCount, or fails, leaves the schedule and adds its id to
\* errors; either way the request goes on with the next matched schedule or,
\* after the last, answers 200 with success.  When it has answered, the
\* schedules its filters still match are exactly those named in errors.
C19_PartialFailure ==
  /\ [][\A r \in ReqIds :
          (req[r].pc = "b_delete" /\ Stepped(r))
            => /\ \/ /\ schedules' = schedules \ {Head(req[r].matched)}
                     /\ req'[r].deletedCount = req[r].deletedCount + 1
                     /\ req'[r].errors = req[r].errors
                  \/ /\ schedules' = schedules
                     /\ req'[r].deletedCount = req[r].deletedCount
                     /\ req'[r].errors =
                          Append(req[r].errors, Head(req[r].matched))
               /\ IF Tail(req[r].matched) = <<>>
                  THEN /\ req'[r].pc = "done" /\ req'[r].http = 200
                       /\ req'[r].success
                  ELSE /\ req'[r].pc = "b_getReservations"
                       /\ req'[r].matched = Tail(req[r].matched)]_vars
  /\ [](\A r \in ReqIds :
          (req[r].kind = "bulk" /\ req[r].pc = "done"
             /\ req[r].status = "deleted")
            => Matching(req[r].coachId, req[r].courseId, req[r].range)
                 = {req[r].errors[n] : n \in DOMAIN req[r].errors})

\* a bulk-delete request over two schedules has answered: the delete of the
\* first failed, the second is deleted
C19_Witness ==
  \E r \in ReqIds :
    /\ req[r].kind = "bulk" /\ req[r].pc = "done" /\ req[r].http = 200
    /\ req[r].deletedCount = 1
    /\ req[r].errors = <<"s1">>
    /\ schedules = {"s1"}

\* C20: with one request at a time and no failing store call, a bulk-delete
\* request changes the status of booked reservations only, deletes a schedule
\* only when none of the schedule's reservations is booked any more, and
\* leaves every reservation that is checked_in or cancelled as it is.
C20_CancelBeforeDelete ==
  [][\A r \in ReqIds :
       (req[r].kind = "bulk" /\ Stepped(r))
         => /\ \A i \in DOMAIN reservations :
                 reservations[i].status # "booked"
                   => reservations'[i] = reservations[i]
            /\ schedules' # schedules
                 => /\ req[r].pc = "b_delete"
                    /\ schedules' = schedules \ {Head(req[r].matched)}
                    /\ \A i \in DOMAIN reservations :
                         reservations[i].scheduleId = Head(req[r].matched)
                           => reservations[i].status # "booked"]_vars

\* a bulk-delete request has deleted a schedule that had a booked and a
\* checked-in reservation: the first is cancelled, the second still checked in
C20_Witness ==
  \E r \in ReqIds :
    /\ req[r].kind = "bulk" /\ req[r].pc = "done" /\ req[r].deletedCount > 0
    /\ req[r].cancelledReservationsCount > 0
    /\ \E i, j \in DOMAIN reservations :
         /\ reservations[i].scheduleId \notin schedules
         /\ reservations[j].scheduleId = reservations[i].scheduleId
         /\ reservations[i].status = "cancelled"
         /\ reservations[j].status = "checked_in"

\* C21: when a bulk-delete request leaves the cascade of a matched schedule
\* because the lookup or a cancel of its reservations failed (a reservation of
\* the schedule is still booked), the schedule is appended to errors, and the
\* request goes on with its schedules.
C21_ReservationFailureReported ==
  [][\A r \in ReqIds :
       (req[r].pc \in {"b_getReservations", "b_cancel"} /\ Stepped(r)
          /\ req'[r].pc = "b_delete"
          /\ \E i \in DOMAIN reservations' :
               /\ reservations'[i].scheduleId = Head(req[r].matched)
               /\ reservations'[i].status = "booked")
         => /\ req'[r].errors = Append(req[r].errors, Head(req[r].matched))
            /\ req'[r].matched = req[r].matched]_vars

\* C22: in every step of a bulk-delete request deletedCount grows by the
\* number of schedules the step removed, cancelledReservationsCount by the
\* number of reservations the step moved from booked to cancelled, and
\* deletedCount plus the entries of errors plus the schedules still to do
\* stays the number of matched schedules.
C22_ExactReport ==
  [][\A r \in ReqIds :
       (req'[r].kind = "bulk" /\ Stepped(r))
         => IF req[r].pc = "idle"
            THEN /\ req'[r].deletedCount = 0
                 /\ req'[r].cancelledReservationsCount = 0
                 /\ req'[r].errors = <<>>
            ELSE /\ req'[r].deletedCount - req[r].deletedCount
                      = Cardinality(schedules \ schedules')
                 /\ req'[r].cancelledReservationsCount
                      - req[r].cancelledReservationsCount
                      = Cardinality({i \in DOMAIN reservations :
                           /\ reservations[i].status = "booked"
                           /\ reservations'[i].status = "cancelled"})
                 /\ req'[r].deletedCount + Len(req'[r].errors)
                      + Len(req'[r].matched)
                      = req[r].deletedCount + Len(req[r].errors)
                          + Len(req[r].matched)]_vars

\* the schedule s is within the ownership filter of the request <<k, c, ...>>
InFilter(s, k, c) ==
  IF c # ""
  THEN ScheduleData[s].courseId = c /\ c \in Courses /\ CourseCoach[c] = k
  ELSE \/ ScheduleData[s].createdBy = k
       \/ /\ ScheduleData[s].courseId \in Courses
          /\ CourseCoach[ScheduleData[s].courseId] = k

\* C23: every schedule a step of a bulk-delete request removes, and the
\* schedule of every reservation such a step changes, is within the ownership
\* filter of the request.
C23_OnlyOwnFilter ==
  [][\A r \in ReqIds :
       (req[r].kind = "bulk" /\ Stepped(r))
         => /\ \A s \in schedules \ schedules' :
                 InFilter(s, req[r].coachId, req[r].courseId)
            /\ \A i \in DOMAIN reservations :
                 reservations'[i] # reservations[i]
                   => InFilter(reservations[i].scheduleId,
                               req[r].coachId, req[r].courseId)]_vars

\* a bulk-delete request without a course has deleted a schedule and
\* cancelled a reservation, and a schedule of another coach is still stored
C23_Witness ==
  \E r \in ReqIds :
    /\ req[r].kind = "bulk" /\ req[r].pc = "done" /\ req[r].courseId = ""
    /\ req[r].deletedCount > 0 /\ req[r].cancelledReservationsCount > 0
    /\ \E s \in schedules : ~InFilter(s, req[r].coachId, "")

\* the startTime of the schedule is missing or no instant
Unparseable(s) == ScheduleData[s].startTime.shape \in {"missing", "invalid"}

\* C24: a bulk-delete request with a date range does not fail in its first
\* step, matches no schedule whose startTime is missing or no instant, and
\* removes no such schedule.
C24_UnparseableExcluded ==
  [][\A r \in ReqIds :
       /\ (req[r].pc = "idle" /\ req'[r].kind = "bulk"
             /\ req'[r].range # <<0, 0>>)
            => /\ req'[r].http # 500
               /\ \A n \in DOMAIN req'[r].matched :
                    ~Unparseable(req'[r].matched[n])
       /\ (req[r].kind = "bulk" /\ req[r].range # <<0, 0>> /\ Stepped(r))
            => \A s \in schedules \ schedules' : ~Unparseable(s)]_vars

\* C27: a scan that looks up the reservation of a pair that holds a cancelled
\* reservation and a later booked one reports neither cancelled nor
\* no_reservation: it goes on to check the booked reservation in.
C27_ScanAfterRebook ==
  [][\A r \in ReqIds :
       (req[r].pc = "s_getReservation" /\ Stepped(r)
          /\ \E i, j \in ScanPair(r) :
               /\ i < j
               /\ reservations[i].status = "cancelled"
               /\ reservations[j].status = "booked")
         => /\ ~ScanSays(r, "cancelled")
            /\ ~ScanSays(r, "no_reservation")
            /\ req'[r].pc = "s_checkIn"
            /\ reservations[req'[r].reservationId].status = "booked"]_vars

\* C28: in every reachable state the schedule of every booked reservation is
\* stored (schedules are removed by bulk-delete requests only).
C28_NoBookedOnDeletedSchedule ==
  \A i \in DOMAIN reservations :
    reservations[i].status = "booked" => reservations[i].scheduleId \in schedules

C25_CameraReleased ==
  (\/ ~scanner.mounted
   \/ ~scanner.isOpen
   \/ scanner.fetching > 0
   \/ scanner.scanResult # "none")
    => scanner.live = {} /\ scanner.sampling = {}

\* C26: a successful decode leaves no sampling callback scheduled and the
\* request it submits is the only one out; no request is submitted while a
\* result is shown.
C26_OneRequestPerSession ==
  [][scanner'.fetching > scanner.fetching
       => /\ scanner'.sampling = {}
          /\ scanner'.fetching = 1
          /\ scanner.scanResult = "none"]_vars

\* C30: a timer armed by a result that a rescan has cleared does not close
\* the scanner when it fires.
C30_StaleTimerDoesNotClose ==
  [][scanner'.oldTimers < scanner.oldTimers
       => scanner'.isOpen = scanner.isOpen]_vars

====
